---- MODULE Spec2Model ----
(***************************************************************************)
(* Two-stage face pipeline.                                                *)
(*   fd_component.py : Detection Stage (Greengrass subscriber, dedup gate, *)
(*                     MTCNN detection, routing to SQS).                   *)
(*   fr_lambda.py    : Recognition Stage (Lambda handler over an SQS batch,*)
(*                     embedding, nearest-neighbour match, Result).        *)
(* Strings that the code takes apart (request ids, file names) are         *)
(* sequences of tokens; SQS queues are bags of message bodies.             *)
(***************************************************************************)
EXTENDS Integers, Sequences, FiniteSets, Bags, TLC

(* ------------------------------ bounds -------------------------------- *)
\* total number of inbound event deliveries in one run
MaxDeliveries == 3
\* largest number of records SQS hands to one Lambda invocation
BatchSize == 2
\* largest number of entries of the reference database
MaxDB == 3
\* embedding coordinates range over 0..MaxCoord
MaxCoord == 1

(* ------------------------------ inputs -------------------------------- *)
\* request ids of the inbound events; "a" and "a.x" share the text before the first dot
ReqIds == { <<"a">>, <<"a", ".", "x">>, <<"b">> }

\* what the bytes carried by an event are: an image with a face, an image without,
\* bytes that are no image, or text that is not valid base64
ImageKinds == {"face", "noface", "corrupt", "badb64"}
\* the event for r has not been published on the topic yet
NotPublished == "not-published"

Threads == {"t1", "t2"}

NoReq == <<"-">>
NoPath == [dir |-> "-", name |-> <<>>]
NoFile == [kind |-> "absent", of |-> NoReq]
None == "None"

\* body.get("filename", ""): the filename the event for r carries ("" when it has none)
EventFilename(r) ==
    CASE r = <<"a">> -> "cam1.jpg"
      [] r = <<"a", ".", "x">> -> "cam2.jpg"
      [] OTHER -> ""

Embeddings == [1..2 -> 0..MaxCoord]

\* names of the enrolled identities, in enrolment order
LabelNames == <<"a", "b", "c", "d", "e">>

\* saved_data = (embedding_list, name_list), index-aligned: every non-empty database
\* of up to MaxDB embeddings, the identity at index i named LabelNames[i]
MatchDBs ==
    { [embeddings |-> embs, labels |-> SubSeq(LabelNames, 1, Len(embs))] :
        embs \in UNION { [1..n -> Embeddings] : n \in 1..MaxDB } }

(* --------------------------- string helpers --------------------------- *)
\* index of the first "." of s, 0 when there is none
RECURSIVE FirstDotFrom(_, _)
FirstDotFrom(s, i) ==
    IF i > Len(s) THEN 0
    ELSE IF s[i] = "." THEN i
    ELSE FirstDotFrom(s, i + 1)

\* index of the last "." of s, 0 when there is none
RECURSIVE LastDotFrom(_, _)
LastDotFrom(s, i) ==
    IF i < 1 THEN 0
    ELSE IF s[i] = "." THEN i
    ELSE LastDotFrom(s, i - 1)

\* os.path.splitext(name)[0]: the name without its last extension
\* (a dot in first position starts no extension)
SplitExtRoot(s) ==
    LET d == LastDotFrom(s, Len(s))
    IN  IF d > 1 THEN SubSeq(s, 1, d - 1) ELSE s

\* s.split(".")[0]
BeforeFirstDot(s) ==
    LET d == FirstDotFrom(s, 1)
    IN  IF d = 0 THEN s ELSE SubSeq(s, 1, d - 1)

\* key = os.path.splitext(os.path.basename(path))[0].split(".")[0]
KeyOfPath(p) == BeforeFirstDot(SplitExtRoot(p.name))

\* os.path.join(TMP_DIR, f"{req_id}.jpg")
InPath(r) == [dir |-> "TMP_DIR", name |-> r \o <<".", "jpg">>]

\* os.path.join(output_path, f"{key}_face.jpg")
FacePath(key) == [dir |-> "/tmp/detected_faces", name |-> key \o <<"_face", ".", "jpg">>]

Paths == { InPath(r) : r \in ReqIds } \cup { FacePath(KeyOfPath(InPath(r))) : r \in ReqIds }

(* ------------------------------ matcher ------------------------------- *)
\* torch.dist(emb, emb_db): Euclidean distance; the square keeps the order and
\* the ties of the distances, which is all that min and index read
Dist(e, d) == (e[1] - d[1]) * (e[1] - d[1]) + (e[2] - d[2]) * (e[2] - d[2])

\* dist_list = [torch.dist(emb, emb_db).item() for emb_db in embedding_list]
DistList(e, D) == [i \in 1..Len(D.embeddings) |-> Dist(e, D.embeddings[i])]

\* min(dist_list): left-to-right scan keeping the smallest seen so far
RECURSIVE MinFrom(_, _, _)
MinFrom(l, i, best) ==
    IF i > Len(l) THEN best
    ELSE MinFrom(l, i + 1, IF l[i] < best THEN l[i] ELSE best)

\* a scan whose comparison is the wrong way round
RECURSIVE MaxFrom(_, _, _)
MaxFrom(l, i, best) ==
    IF i > Len(l) THEN best
    ELSE MaxFrom(l, i + 1, IF l[i] > best THEN l[i] ELSE best)

ListMinWrongWay(l) == MaxFrom(l, 2, l[1])

ListMin(l) == MinFrom(l, 2, l[1])

\* dist_list.index(v): position of the first element equal to v
RECURSIVE IndexFrom(_, _, _)
IndexFrom(l, v, i) ==
    IF l[i] = v THEN i ELSE IndexFrom(l, v, i + 1)

\* position of the last element equal to v
RECURSIVE IndexBackFrom(_, _, _)
IndexBackFrom(l, v, i) ==
    IF l[i] = v THEN i ELSE IndexBackFrom(l, v, i - 1)

ListIndexLast(l, v) == IndexBackFrom(l, v, Len(l))

ListIndex(l, v) == IndexFrom(l, v, 1)

\* min_index = dist_list.index(min(dist_list))
MinIndex(l) == ListIndex(l, ListMin(l))

\* recognized_name = name_list[min_index]   (database non-empty)
Match(e, D) == D.labels[MinIndex(DistList(e, D))]

(* ------------------------------- state -------------------------------- *)
VARIABLES
    image,          \* image[r]: what the inbound event for r carries
    outcome,        \* outcome[r]: what face_detection_func returned for r's image
    db,             \* saved_data of the weights file of the Lambda package
    seen_req_ids,   \* fd_component.seen_req_ids
    pc,             \* pc[t]: position of callback thread t in on_stream_event
    req_id,         \* req_id[t]: local req_id of process_message
    face_path,      \* face_path[t]: local face_path of process_message
    face_data,      \* face_data[t]: content read from face_path
    err,            \* err[t]: exception caught by on_stream_event, by origin
    files,          \* files of the Detection Stage host
    delivered,      \* delivered[r]: number of deliveries of the event for r
    work_queue,     \* bodies waiting on REQUEST_QUEUE_URL
    response_queue, \* bodies received by RESPONSE_QUEUE_URL
    fd_sent,        \* every send_message the Detection Stage completed
    fr_pc,          \* position of the Lambda handler
    fr_records,     \* event['Records'] of the running invocation
    fr_i,           \* index of the record the loop is at
    tmp_face,       \* content of /tmp/face.jpg
    fr_emb,         \* emb
    fr_name,        \* recognized_name
    fr_sent,        \* bodies sent by the running invocation, in order
    fr_ret,         \* what handler returned: statusCode and where it failed
    loads           \* number of torch.load / torch.jit.load pairs executed

fd_vars == <<image, outcome, seen_req_ids, pc, req_id, face_path, face_data, err, files, delivered, fd_sent>>
fr_vars == <<fr_pc, fr_records, fr_i, tmp_face, fr_emb, fr_name, fr_sent, fr_ret, loads>>
vars == <<image, outcome, db, seen_req_ids, pc, req_id, face_path, face_data, err, files, delivered,
          work_queue, response_queue, fd_sent,
          fr_pc, fr_records, fr_i, tmp_face, fr_emb, fr_name, fr_sent, fr_ret, loads>>

NoEmb == <<>>
NoRet == [statusCode |-> 0, failed |-> "none", at |-> 0]

\* reference databases the pipeline runs start with: an empty one, and one of two
\* identities whose first label is the empty string
PipelineDBs ==
    { [embeddings |-> <<>>, labels |-> <<>>],
      [embeddings |-> << <<0, 0>>, <<1, 1>> >>, labels |-> <<"", "alice">>] }

\* embeddings the model capability produces in the pipeline runs
PipelineEmbeddings == { <<0, 0>>, <<1, 1>> }

InitPipeline ==
    /\ image = [r \in ReqIds |-> NotPublished]
    /\ outcome = [r \in ReqIds |-> "none"]
    /\ seen_req_ids = {}
    /\ pc = [t \in Threads |-> "idle"]
    /\ req_id = [t \in Threads |-> NoReq]
    /\ face_path = [t \in Threads |-> NoPath]
    /\ face_data = [t \in Threads |-> NoFile]
    /\ err = [t \in Threads |-> "none"]
    /\ files = [p \in Paths |-> NoFile]
    /\ delivered = [r \in ReqIds |-> 0]
    /\ work_queue = EmptyBag
    /\ response_queue = EmptyBag
    /\ fd_sent = EmptyBag
    /\ fr_pc = "idle"
    /\ fr_records = <<>>
    /\ fr_i = 0
    /\ tmp_face = NoFile
    /\ fr_emb = NoEmb
    /\ fr_name = None
    /\ fr_sent = <<>>
    /\ fr_ret = NoRet
    /\ loads = 0

Init ==
    /\ db \in PipelineDBs
    /\ InitPipeline

(* ------------------------- Detection Stage ---------------------------- *)
\* bytes of the image the event for r carries, as written to or read from a file
RawOf(r) == [kind |-> "raw", of |-> r]
\* the face MTCNN crops out of the image of request r, saved as JPEG
CropOf(r) == [kind |-> "crop", of |-> r]

\* an exception leaves process_message and reaches the except clause of
\* on_stream_event (req_id[t] still names the event the callback is handling)
FD_Raise(t, origin) ==
    /\ pc' = [pc EXCEPT ![t] = "except"]
    /\ err' = [err EXCEPT ![t] = origin]

\* process_message returns: the callback is over
FD_Return(t) ==
    /\ pc' = [pc EXCEPT ![t] = "idle"]
    /\ req_id' = [req_id EXCEPT ![t] = NoReq]
    /\ face_path' = [face_path EXCEPT ![t] = NoPath]
    /\ face_data' = [face_data EXCEPT ![t] = NoFile]

TotalDelivered == delivered[<<"a">>] + delivered[<<"a", ".", "x">>] + delivered[<<"b">>]

\* the subscription hands the event for r to on_stream_event on thread t;
\* process_message parses the payload: encoded, req_id, fname
Deliver(t, r, kind) ==
    /\ pc[t] = "idle"
    /\ TotalDelivered < MaxDeliveries
    /\ image[r] \in {NotPublished, kind}
    /\ image' = [image EXCEPT ![r] = kind]
    /\ delivered' = [delivered EXCEPT ![r] = @ + 1]
    /\ pc' = [pc EXCEPT ![t] = "gate"]
    /\ req_id' = [req_id EXCEPT ![t] = r]
    /\ UNCHANGED <<outcome, db, seen_req_ids, face_path, face_data, err, files,
                   work_queue, response_queue, fd_sent, fr_vars>>

\* the event's payload is no JSON object with the keys "encoded" and "request_id":
\* json.loads or the key lookup raises before any request id is known
DeliverMalformed(t) ==
    /\ pc[t] = "idle"
    /\ FD_Raise(t, "parse")
    /\ UNCHANGED <<image, outcome, db, seen_req_ids, req_id, face_path, face_data, files,
                   delivered, work_queue, response_queue, fd_sent, fr_vars>>

\* one inbound event at a time: a callback starts when no other is running
DeliverSeq(t, r, kind) ==
    /\ \A u \in Threads : pc[u] = "idle"
    /\ Deliver(t, r, kind)

\* a gate that lets every delivery through
FD_GateOpen(t) ==
    /\ pc[t] = "gate"
    /\ pc' = [pc EXCEPT ![t] = "add"]
    /\ UNCHANGED <<image, outcome, db, seen_req_ids, req_id, face_path, face_data, err, files,
                   delivered, work_queue, response_queue, fd_sent, fr_vars>>

\* if req_id in seen_req_ids: return
FD_Gate(t) ==
    /\ pc[t] = "gate"
    /\ IF req_id[t] \in seen_req_ids
       THEN FD_Return(t)
       ELSE /\ pc' = [pc EXCEPT ![t] = "add"]
            /\ UNCHANGED <<req_id, face_path, face_data>>
    /\ UNCHANGED <<image, outcome, db, seen_req_ids, err, files, delivered,
                   work_queue, response_queue, fd_sent, fr_vars>>

\* the gate without the insertion
FD_AddNothing(t) ==
    /\ pc[t] = "add"
    /\ pc' = [pc EXCEPT ![t] = "decode"]
    /\ UNCHANGED <<image, outcome, db, seen_req_ids, req_id, face_path, face_data, err, files,
                   delivered, work_queue, response_queue, fd_sent, fr_vars>>

\* an insertion that forgets the ids recorded before
FD_AddReplace(t) ==
    /\ pc[t] = "add"
    /\ seen_req_ids' = {req_id[t]}
    /\ pc' = [pc EXCEPT ![t] = "decode"]
    /\ UNCHANGED <<image, outcome, db, req_id, face_path, face_data, err, files, delivered,
                   work_queue, response_queue, fd_sent, fr_vars>>

\* seen_req_ids.add(req_id)
FD_Add(t) ==
    /\ pc[t] = "add"
    /\ seen_req_ids' = seen_req_ids \cup {req_id[t]}
    /\ pc' = [pc EXCEPT ![t] = "decode"]
    /\ UNCHANGED <<image, outcome, db, req_id, face_path, face_data, err, files, delivered,
                   work_queue, response_queue, fd_sent, fr_vars>>

\* raw_bytes = base64.b64decode(encoded); write them to TMP_DIR/<req_id>.jpg
FD_Decode(t) ==
    /\ pc[t] = "decode"
    /\ IF image[req_id[t]] = "badb64"
       THEN /\ FD_Raise(t, "decode")
            /\ UNCHANGED files
       ELSE /\ files' = [files EXCEPT ![InPath(req_id[t])] = RawOf(req_id[t])]
            /\ pc' = [pc EXCEPT ![t] = "detect"]
            /\ UNCHANGED err
    /\ UNCHANGED <<image, outcome, db, seen_req_ids, req_id, face_path, face_data, delivered,
                   work_queue, response_queue, fd_sent, fr_vars>>

\* face_path = fd.face_detection_func(in_path, temp_output_path):
\* Image.open raises on bytes that are no image; MTCNN (ok: the model call does not
\* throw) finds a face or none; a face is saved as <key>_face.jpg and its path returned
FD_Detect(t, ok) ==
    /\ pc[t] = "detect"
    /\ LET in_path == InPath(req_id[t])
           content == files[in_path]
           out == FacePath(KeyOfPath(in_path))
       IN  IF content.kind # "raw" \/ image[content.of] = "corrupt"
           THEN /\ FD_Raise(t, "open")
                /\ UNCHANGED <<files, face_path, outcome>>
           ELSE IF ~ok
           THEN /\ FD_Raise(t, "detect")
                /\ UNCHANGED <<files, face_path, outcome>>
           ELSE IF image[content.of] = "face"
           THEN /\ files' = [files EXCEPT ![out] = CropOf(content.of)]
                /\ face_path' = [face_path EXCEPT ![t] = out]
                /\ outcome' = [outcome EXCEPT ![req_id[t]] = "FaceFound"]
                /\ pc' = [pc EXCEPT ![t] = "read"]
                /\ UNCHANGED err
           ELSE /\ face_path' = [face_path EXCEPT ![t] = NoPath]
                /\ outcome' = [outcome EXCEPT ![req_id[t]] = "NoFace"]
                /\ pc' = [pc EXCEPT ![t] = "noface"]
                /\ UNCHANGED <<files, err>>
    /\ UNCHANGED <<image, db, seen_req_ids, req_id, face_data, delivered,
                   work_queue, response_queue, fd_sent, fr_vars>>

\* response_payload of the No-Face branch
NoFaceResult(r) == [request_id |-> r, result |-> "No-Face", filename |-> EventFilename(r)]

\* if face_path is None: sqs.send_message(QueueUrl=RESPONSE_QUEUE_URL, ...); return
\* (ok: send_message does not raise)
FD_SendNoFace(t, ok) ==
    /\ pc[t] = "noface"
    /\ IF ok
       THEN /\ response_queue' = response_queue (+) SetToBag({NoFaceResult(req_id[t])})
            /\ fd_sent' = fd_sent (+) SetToBag({[queue |-> "response", body |-> NoFaceResult(req_id[t])]})
            /\ FD_Return(t)
            /\ UNCHANGED err
       ELSE /\ FD_Raise(t, "publish")
            /\ UNCHANGED <<response_queue, fd_sent, req_id, face_path, face_data>>
    /\ UNCHANGED <<image, outcome, db, seen_req_ids, files, delivered, work_queue, fr_vars>>

\* with open(face_path, 'rb') as f: face_data = f.read()
FD_ReadFace(t) ==
    /\ pc[t] = "read"
    /\ face_data' = [face_data EXCEPT ![t] = files[face_path[t]]]
    /\ pc' = [pc EXCEPT ![t] = "work"]
    /\ UNCHANGED <<image, outcome, db, seen_req_ids, req_id, face_path, err, files, delivered,
                   work_queue, response_queue, fd_sent, fr_vars>>

\* payload sent to the recognition component
WorkItem(r, data) == [request_id |-> r, face_image |-> data, filename |-> EventFilename(r)]

\* sqs.send_message(QueueUrl=REQUEST_QUEUE_URL, MessageBody=json.dumps(payload))
FD_SendWork(t, ok) ==
    /\ pc[t] = "work"
    /\ IF ok
       THEN /\ work_queue' = work_queue (+) SetToBag({WorkItem(req_id[t], face_data[t])})
            /\ fd_sent' = fd_sent (+) SetToBag({[queue |-> "work", body |-> WorkItem(req_id[t], face_data[t])]})
            /\ FD_Return(t)
            /\ UNCHANGED err
       ELSE /\ FD_Raise(t, "publish")
            /\ UNCHANGED <<work_queue, fd_sent, req_id, face_path, face_data>>
    /\ UNCHANGED <<image, outcome, db, seen_req_ids, files, delivered, response_queue, fr_vars>>

\* a callback without the except clause: the exception ends the callback's thread
FD_ExceptDies(t) ==
    /\ pc[t] = "except"
    /\ pc' = [pc EXCEPT ![t] = "crashed"]
    /\ UNCHANGED <<image, outcome, db, seen_req_ids, req_id, face_path, face_data, err, files,
                   delivered, work_queue, response_queue, fd_sent, fr_vars>>

\* an except clause that reports the failure as a Result on the response channel
FD_ExceptReports(t) ==
    /\ pc[t] = "except"
    /\ IF req_id[t] = NoReq
       THEN UNCHANGED <<response_queue, fd_sent>>
       ELSE /\ response_queue' = response_queue (+)
                    SetToBag({[request_id |-> req_id[t], result |-> "Error", filename |-> ""]})
            /\ fd_sent' = fd_sent (+)
                    SetToBag({[queue |-> "response",
                               body |-> [request_id |-> req_id[t], result |-> "Error",
                                         filename |-> ""]]})
    /\ FD_Return(t)
    /\ err' = [err EXCEPT ![t] = "none"]
    /\ UNCHANGED <<image, outcome, db, seen_req_ids, files, delivered, work_queue, fr_vars>>

\* except Exception as e: print(f"[FD][Error] {e}")   -- the exception is swallowed
FD_Except(t) ==
    /\ pc[t] = "except"
    /\ FD_Return(t)
    /\ err' = [err EXCEPT ![t] = "none"]
    /\ UNCHANGED <<image, outcome, db, seen_req_ids, files, delivered,
                   work_queue, response_queue, fd_sent, fr_vars>>

(* ------------------------ Recognition Stage --------------------------- *)
SeqToBag(s) == [m \in { s[i] : i \in DOMAIN s } |-> Cardinality({ i \in DOMAIN s : s[i] = m })]

\* the batches SQS may hand to one invocation: up to BatchSize waiting bodies, in any order
Batches ==
    { s \in UNION { [1..n -> BagToSet(work_queue)] : n \in 1..BatchSize } :
        SeqToBag(s) \sqsubseteq work_queue }

\* except Exception as e: return {'statusCode': 500, ...}   (handler)
FR_Raise(origin) ==
    /\ fr_ret' = [statusCode |-> 500, failed |-> origin, at |-> fr_i]
    /\ fr_pc' = "returned"

\* Lambda invokes handler(event, context) with a batch taken off the work queue
FR_Invoke(batch) ==
    /\ fr_pc = "idle"
    /\ fr_pc' = "record"
    /\ fr_records' = batch
    /\ fr_i' = 1
    /\ fr_sent' = <<>>
    /\ fr_ret' = NoRet
    /\ work_queue' = work_queue (-) SeqToBag(batch)
    /\ UNCHANGED <<db, fd_vars, response_queue, tmp_face, fr_emb, fr_name, loads>>

\* for record in event['Records']: after the last record return statusCode 200;
\* otherwise parse the record body, write the decoded face_image to /tmp/face.jpg and
\* enter face_recognition_func: Image.open(face_img_path), torch.load(model_wt_path),
\* torch.jit.load(model_path)
FR_Record ==
    /\ fr_pc = "record"
    /\ IF fr_i > Len(fr_records)
       THEN /\ fr_pc' = "returned"
            /\ fr_ret' = [statusCode |-> 200, failed |-> "none", at |-> 0]
            /\ UNCHANGED <<tmp_face, loads>>
       ELSE /\ tmp_face' = fr_records[fr_i].face_image
            /\ IF tmp_face'.kind # "crop"
               THEN /\ FR_Raise("open")
                    /\ UNCHANGED loads
               ELSE /\ loads' = loads + 1
                    /\ fr_pc' = "embed"
                    /\ UNCHANGED fr_ret
    /\ UNCHANGED <<db, fd_vars, work_queue, response_queue,
                   fr_records, fr_i, fr_emb, fr_name, fr_sent>>

\* emb = self.resnet(face_tensor.unsqueeze(0)).detach()
\* (ok: the model produces an embedding e for the crop; otherwise it throws)
FR_Embed(ok, e) ==
    /\ fr_pc = "embed"
    /\ IF ok
       THEN /\ fr_emb' = e
            /\ fr_pc' = "match"
            /\ UNCHANGED fr_ret
       ELSE /\ FR_Raise("embed")
            /\ UNCHANGED fr_emb
    /\ UNCHANGED <<db, fd_vars, work_queue, response_queue,
                   fr_records, fr_i, tmp_face, fr_name, fr_sent, loads>>

\* a matcher that answers None on an empty database
FR_MatchEmptyNone ==
    /\ fr_pc = "match"
    /\ fr_name' = IF Len(db.embeddings) = 0 THEN None ELSE Match(fr_emb, db)
    /\ fr_pc' = "send"
    /\ UNCHANGED <<db, fd_vars, work_queue, response_queue,
                   fr_records, fr_i, tmp_face, fr_emb, fr_sent, loads, fr_ret>>

\* dist_list, min_index, recognized_name; min() of an empty list raises ValueError
FR_Match ==
    /\ fr_pc = "match"
    /\ IF Len(db.embeddings) = 0
       THEN /\ FR_Raise("match")
            /\ UNCHANGED fr_name
       ELSE /\ fr_name' = Match(fr_emb, db)
            /\ fr_pc' = "send"
            /\ UNCHANGED fr_ret
    /\ UNCHANGED <<db, fd_vars, work_queue, response_queue,
                   fr_records, fr_i, tmp_face, fr_emb, fr_sent, loads>>

\* result_message: 'result': recognized_name if recognized_name else "Unknown"
ResultMessage(r, name) ==
    [request_id |-> r, result |-> IF name # None /\ name # "" THEN name ELSE "Unknown"]

\* a loop that steps over the record after the one it sent
FR_SendAndSkip(ok) ==
    /\ fr_pc = "send"
    /\ IF ok
       THEN /\ response_queue' = response_queue (+)
                    SetToBag({ResultMessage(fr_records[fr_i].request_id, fr_name)})
            /\ fr_sent' = Append(fr_sent, ResultMessage(fr_records[fr_i].request_id, fr_name))
            /\ fr_i' = fr_i + 2
            /\ fr_pc' = "record"
            /\ fr_emb' = NoEmb
            /\ fr_name' = None
            /\ UNCHANGED fr_ret
       ELSE /\ FR_Raise("publish")
            /\ UNCHANGED <<response_queue, fr_sent, fr_i, fr_emb, fr_name>>
    /\ UNCHANGED <<db, fd_vars, work_queue, fr_records, tmp_face, loads>>

\* sqs.send_message(QueueUrl=RESPONSE_QUEUE_URL, ...), then the next record
FR_Send(ok) ==
    /\ fr_pc = "send"
    /\ IF ok
       THEN /\ response_queue' = response_queue (+)
                    SetToBag({ResultMessage(fr_records[fr_i].request_id, fr_name)})
            /\ fr_sent' = Append(fr_sent, ResultMessage(fr_records[fr_i].request_id, fr_name))
            /\ fr_i' = fr_i + 1
            /\ fr_pc' = "record"
            /\ fr_emb' = NoEmb
            /\ fr_name' = None
            /\ UNCHANGED fr_ret
       ELSE /\ FR_Raise("publish")
            /\ UNCHANGED <<response_queue, fr_sent, fr_i, fr_emb, fr_name>>
    /\ UNCHANGED <<db, fd_vars, work_queue, fr_records, tmp_face, loads>>

\* handler returns its dict to the Lambda runtime: the invocation ended without an
\* exception, so SQS deletes the batch
FR_Return ==
    /\ fr_pc = "returned"
    /\ fr_pc' = "idle"
    /\ fr_records' = <<>>
    /\ fr_i' = 0
    /\ fr_emb' = NoEmb
    /\ fr_name' = None
    /\ fr_sent' = <<>>
    /\ fr_ret' = NoRet
    /\ UNCHANGED <<db, fd_vars, work_queue, response_queue, tmp_face, loads>>

(* --------------------------- specifications --------------------------- *)
FD_Step(t) ==
    \/ FD_Gate(t)
    \/ FD_Add(t)
    \/ FD_Decode(t)
    \/ \E ok \in BOOLEAN : FD_Detect(t, ok)
    \/ \E ok \in BOOLEAN : FD_SendNoFace(t, ok)
    \/ FD_ReadFace(t)
    \/ \E ok \in BOOLEAN : FD_SendWork(t, ok)
    \/ FD_Except(t)

FR_Step ==
    \/ \E batch \in Batches : FR_Invoke(batch)
    \/ FR_Record
    \/ \E ok \in BOOLEAN, e \in PipelineEmbeddings : FR_Embed(ok, e)
    \/ FR_Match
    \/ \E ok \in BOOLEAN : FR_Send(ok)
    \/ FR_Return

Next ==
    \/ \E t \in Threads, r \in ReqIds, kind \in ImageKinds : DeliverSeq(t, r, kind)
    \/ \E t \in Threads : (\A u \in Threads : pc[u] = "idle") /\ DeliverMalformed(t)
    \/ \E t \in Threads : FD_Step(t)
    \/ FR_Step

Spec == Init /\ [][Next]_vars

(* normal operation: well-formed images, capabilities and publishes succeed, the  *)
(* database has entries; callbacks and Lambda invocations are eventually served   *)
InitNormal ==
    /\ db \in { D \in PipelineDBs : Len(D.embeddings) > 0 }
    /\ InitPipeline

FD_StepNormal(t) ==
    \/ FD_Gate(t)
    \/ FD_Add(t)
    \/ FD_Decode(t)
    \/ FD_Detect(t, TRUE)
    \/ FD_SendNoFace(t, TRUE)
    \/ FD_ReadFace(t)
    \/ FD_SendWork(t, TRUE)

FR_StepNormal ==
    \/ \E batch \in Batches : FR_Invoke(batch)
    \/ FR_Record
    \/ \E e \in PipelineEmbeddings : FR_Embed(TRUE, e)
    \/ FR_Match
    \/ FR_Send(TRUE)
    \/ FR_Return

NextNormal ==
    \/ \E t \in Threads, r \in ReqIds, kind \in {"face", "noface"} : DeliverSeq(t, r, kind)
    \/ \E t \in Threads : FD_StepNormal(t)
    \/ FR_StepNormal

SpecNormal ==
    /\ InitNormal
    /\ [][NextNormal]_vars
    /\ WF_vars(\E t \in Threads : FD_StepNormal(t))
    /\ WF_vars(FR_StepNormal)

(* the matcher on every database and query of the bounds: one request with a    *)
(* face goes through both stages                                                *)
InitMatch ==
    /\ db \in MatchDBs
    /\ InitPipeline

NextMatch ==
    \/ DeliverSeq("t1", <<"a">>, "face")
    \/ FD_Gate("t1")
    \/ FD_Add("t1")
    \/ FD_Decode("t1")
    \/ FD_Detect("t1", TRUE)
    \/ FD_ReadFace("t1")
    \/ FD_SendWork("t1", TRUE)
    \/ \E batch \in Batches : FR_Invoke(batch)
    \/ FR_Record
    \/ \E e \in Embeddings : FR_Embed(TRUE, e)
    \/ FR_Match
    \/ FR_Send(TRUE)
    \/ FR_Return

SpecMatch == InitMatch /\ [][NextMatch]_vars

(* the Detection Stage with its callbacks running concurrently on the threads of *)
(* the subscription's executor, interleaved statement by statement               *)
NextConc ==
    \/ \E t \in Threads, r \in ReqIds, kind \in ImageKinds : Deliver(t, r, kind)
    \/ \E t \in Threads : DeliverMalformed(t)
    \/ \E t \in Threads : FD_Step(t)

SpecConc == Init /\ [][NextConc]_vars

(* ------------------------------ properties ---------------------------- *)
\* number of send_message calls the Detection Stage completed for r on queue q
FdSentCount(r, q) ==
    LET ms == { m \in BagToSet(fd_sent) : m.queue = q /\ m.body.request_id = r }
    IN  BagCardinality([m \in ms |-> fd_sent[m]])

\* number of Results with request id r on the response channel
ResultsFor(r) ==
    LET ms == { m \in BagToSet(response_queue) : m.request_id = r }
    IN  BagCardinality([m \in ms |-> response_queue[m]])

\* some callback is handling an event for r
Busy(r) == \E t \in Threads : pc[t] # "idle" /\ req_id[t] = r

\* callback t is past the dedup gate
PastGate(t) == pc[t] \in {"add", "decode", "detect", "noface", "read", "work"}

\* C1: Dedup idempotence. With the events delivered one after the other, the
\* Detection Stage has published at most one message (WorkItem or Result) for every
\* request id, and only the first delivery of an id gets past the gate, so a later
\* delivery publishes nothing.
C1_DedupIdempotence ==
    /\ \A r \in ReqIds : FdSentCount(r, "work") + FdSentCount(r, "response") <= 1
    /\ \A t \in Threads : PastGate(t) => delivered[req_id[t]] = 1

\* the event for a request was delivered twice, both callbacks are over, and the
\* stage published exactly one message for it
C1_Witness ==
    \E r \in ReqIds :
        /\ delivered[r] >= 2
        /\ ~Busy(r)
        /\ FdSentCount(r, "work") + FdSentCount(r, "response") = 1

\* C2: Detect->route correctness. Once the callback of an event that passed the gate
\* is over: a NoFace outcome left exactly one "No-Face" Result and no WorkItem, a
\* FaceFound outcome left exactly one WorkItem and no Result; WorkItems exist only
\* for FaceFound requests.
C2_DetectRoute ==
    /\ \A r \in ReqIds :
        (outcome[r] = "NoFace" /\ ~Busy(r)) =>
            FdSentCount(r, "response") = 1 /\ FdSentCount(r, "work") = 0
    /\ \A r \in ReqIds :
        (outcome[r] = "FaceFound" /\ ~Busy(r)) =>
            FdSentCount(r, "work") = 1 /\ FdSentCount(r, "response") = 0
    /\ \A m \in BagToSet(fd_sent) :
        /\ m.queue = "work" => outcome[m.body.request_id] = "FaceFound"
        /\ m.queue = "response" => m.body.result = "No-Face"

\* C3: Correlation invariant. Every Result on the response channel carries the
\* request_id of a delivered event and that event's filename.
C3_Correlation ==
    \A m \in BagToSet(response_queue) :
        /\ m.request_id \in ReqIds
        /\ delivered[m.request_id] > 0
        /\ "filename" \in DOMAIN m
        /\ m.filename = EventFilename(m.request_id)

\* the distances from the query of the running match to the entries of the database
QueryDist(i) == Dist(fr_emb, db.embeddings[i])

\* C4: Matcher correctness. The label the matcher returns is the label of an entry
\* whose distance to the query is the least of the database: no entry is strictly
\* nearer.
C4_MatcherCorrect ==
    fr_pc = "send" =>
        \E i \in 1..Len(db.labels) :
            /\ fr_name = db.labels[i]
            /\ \A j \in 1..Len(db.labels) : QueryDist(i) <= QueryDist(j)

\* three entries, the first the farthest, the second the nearest, the third in
\* between (as 5, 1, 3): the matcher returned the second label
C4_Witness ==
    /\ fr_pc = "send"
    /\ Len(db.labels) = 3
    /\ QueryDist(2) < QueryDist(3)
    /\ QueryDist(3) < QueryDist(1)
    /\ fr_name = "b"

\* C5: Matcher determinism and tie-break. The label returned is fixed by the query
\* and the database: it is the label of the lowest index among the entries at the
\* least distance.
C5_TieBreakLowest ==
    fr_pc = "send" =>
        \A i \in 1..Len(db.labels) :
            (\A j \in 1..Len(db.labels) : QueryDist(i) <= QueryDist(j)) =>
                \E k \in 1..i : fr_name = db.labels[k] /\ QueryDist(k) = QueryDist(i)

\* two entries tie at the least distance, behind a farther first entry: the matcher
\* returned the earlier of the two
C5_Witness ==
    /\ fr_pc = "send"
    /\ Len(db.labels) = 3
    /\ QueryDist(2) = QueryDist(3)
    /\ QueryDist(2) < QueryDist(1)
    /\ db.embeddings[2] # db.embeddings[3]
    /\ fr_name = "b"

\* C6: Batch failure isolation. When the handler returns after a failure on record
\* k, the records after k of the batch have been processed too.
C6_BatchIsolation ==
    (fr_pc = "returned" /\ fr_ret.failed # "none") =>
        \A k \in 1..Len(fr_records) : k > fr_ret.at => k <= fr_i

\* C7: Embedding failure yields Unknown. When the handler returns after the
\* embedding of a record failed, it has sent the Result {request_id, "Unknown"} of
\* that record.
C7_EmbedFailureUnknown ==
    (fr_pc = "returned" /\ fr_ret.failed = "embed") =>
        \E n \in 1..Len(fr_sent) :
            /\ fr_sent[n].request_id = fr_records[fr_ret.at].request_id
            /\ fr_sent[n].result = "Unknown"

\* C8: Publish failure does not mark the request processed. When send_message
\* failed for request r, r is not in the SeenSet.
C8_PublishFailureUnmarked ==
    \A t \in Threads :
        (pc[t] = "except" /\ err[t] = "publish") => req_id[t] \notin seen_req_ids

\* C9: Exactly one Result per WorkItem. When the handler returns without any call
\* having failed, it has sent one Result per record of the batch, in the order of
\* the records, each with the request id of its record.
C9_OneResultPerWorkItem ==
    (fr_pc = "returned" /\ fr_ret.failed = "none") =>
        /\ fr_ret.statusCode = 200
        /\ Len(fr_sent) = Len(fr_records)
        /\ \A k \in 1..Len(fr_records) : fr_sent[k].request_id = fr_records[k].request_id

\* a batch of two WorkItems was processed without failure
C9_Witness ==
    /\ fr_pc = "returned"
    /\ fr_ret.statusCode = 200
    /\ Len(fr_records) = 2
    /\ Len(fr_sent) = 2

\* C10: End-to-end exactly-once under normal operation. Every request delivered to
\* the Detection Stage eventually has a Result with its id on the response channel,
\* and the response channel never holds two Results with the same id.
C10_ExactlyOnce ==
    /\ \A r \in ReqIds : (delivered[r] > 0) ~> (ResultsFor(r) = 1)
    /\ [](\A r \in ReqIds : ResultsFor(r) <= 1)

\* a request with a face was delivered twice and has its one Result, sent by the
\* Recognition Stage
C10_Witness ==
    \E r \in ReqIds :
        /\ delivered[r] >= 2
        /\ ~Busy(r)
        /\ outcome[r] = "FaceFound"
        /\ ResultsFor(r) = 1

\* C11: Atomic dedup under concurrent delivery. Two callbacks are never both past
\* the dedup gate with the same request id: the membership test and the insertion
\* act as one insert-if-absent.
C11_AtomicDedup ==
    \A t, u \in Threads :
        (t # u /\ PastGate(t) /\ PastGate(u)) => req_id[t] # req_id[u]

\* C12: Load-once resources. The Reference Database and the model are loaded at
\* most once in a processing context, however many WorkItems it processes.
C12_LoadOnce == loads <= 1

\* C13: Recognition publish failure is retryable. When the handler ends an
\* invocation in which the send of a record's Result failed, that WorkItem is back
\* on the work queue, to be delivered again.
C13_PublishFailureRetryable ==
    [][(fr_pc = "returned" /\ fr_ret.failed = "publish" /\ fr_pc' = "idle") =>
          BagIn(fr_records[fr_ret.at], work_queue')]_vars

\* C14: Empty Reference Database is an error, not Unknown. With no entries in the
\* database no record reaches the send, an invocation that returned did so with the
\* error status, and no Result "Unknown" is on the response channel.
C14_EmptyDbIsError ==
    Len(db.embeddings) = 0 =>
        /\ fr_pc # "send"
        /\ fr_sent = <<>>
        /\ fr_pc = "returned" => fr_ret.statusCode = 500
        /\ \A m \in BagToSet(response_queue) : m.result # "Unknown"

C14_Witness ==
    /\ Len(db.embeddings) = 0
    /\ fr_pc = "returned"
    /\ fr_ret.failed = "match"
    /\ fr_ret.statusCode = 500

\* C15: Per-request errors never crash a stage. A callback that raised is caught and
\* ends, every running callback and invocation can take its next step, an idle
\* callback thread accepts the event of any request id, and the handler returns a
\* status instead of propagating.
C15_ErrorsNeverCrash ==
    /\ \A t \in Threads :
          /\ pc[t] \in {"idle", "gate", "add", "decode", "detect", "noface", "read", "work", "except"}
          /\ pc[t] # "idle" => ENABLED FD_Step(t)
          /\ (TotalDelivered < MaxDeliveries /\ \A u \in Threads : pc[u] = "idle") =>
                \A r \in ReqIds : ENABLED (\E kind \in ImageKinds : DeliverSeq(t, r, kind))
    /\ fr_pc # "idle" => ENABLED FR_Step
    /\ fr_pc = "returned" => fr_ret.statusCode \in {200, 500}
    /\ (fr_pc = "returned" /\ fr_ret.failed # "none") => fr_ret.statusCode = 500

\* an event for one id failed and was dropped; a later event for another id is
\* about to be published
C15_Witness ==
    \E r, r2 \in ReqIds, t \in Threads :
        /\ r # r2
        /\ image[r] \in {"corrupt", "badb64"}
        /\ r \in seen_req_ids
        /\ ~Busy(r)
        /\ pc[t] = "work"
        /\ req_id[t] = r2

\* C16: Malformed input is dropped silently. For an event whose image bytes cannot be
\* decoded the Detection Stage has published neither a Result nor a WorkItem.
C16_MalformedDropped ==
    \A r \in ReqIds :
        image[r] \in {"corrupt", "badb64"} =>
            FdSentCount(r, "work") + FdSentCount(r, "response") = 0

C16_Witness ==
    \E r \in ReqIds :
        /\ image[r] \in {"corrupt", "badb64"}
        /\ r \in seen_req_ids
        /\ ~Busy(r)
        /\ delivered[r] >= 1

\* C17: Dedup insert precedes external calls. A callback at the file write, the
\* detection call or a publish holds an id that is in seen_req_ids, and every file
\* written and every message published is for an id in seen_req_ids.
C17_InsertBeforeExternal ==
    /\ \A t \in Threads :
          pc[t] \in {"decode", "detect", "noface", "read", "work"} => req_id[t] \in seen_req_ids
    /\ \A r \in ReqIds : files[InPath(r)] # NoFile => r \in seen_req_ids
    /\ \A m \in BagToSet(fd_sent) : m.body.request_id \in seen_req_ids

C17_Witness ==
    \E t \in Threads :
        /\ pc[t] = "work"
        /\ delivered[req_id[t]] = 1
        /\ files[InPath(req_id[t])] # NoFile

\* C18: Classification equals the matched label. The Result sent for a record
\* carries the label the matcher returned, whatever string it is.
C18_ResultIsMatchedLabel ==
    [][(fr_pc = "send" /\ fr_pc' = "record" /\ fr_name # None) =>
          fr_sent'[Len(fr_sent')].result = fr_name]_vars

\* C19: SeenSet covers everything published. seen_req_ids never loses an element,
\* and every id of a published WorkItem or Result is in it.
C19_SeenCoversPublished ==
    /\ [][seen_req_ids \subseteq seen_req_ids']_vars
    /\ [](\A m \in BagToSet(fd_sent) : m.body.request_id \in seen_req_ids)

C19_Witness ==
    \E r, r2 \in ReqIds :
        /\ r # r2
        /\ {r, r2} \subseteq seen_req_ids
        /\ FdSentCount(r, "work") + FdSentCount(r, "response") >= 1
        /\ FdSentCount(r2, "work") + FdSentCount(r2, "response") >= 1

\* C20: Cross-request isolation of intermediate files. The face_image of the
\* WorkItem published for r is the crop detected in r's own image.
C20_FileIsolation ==
    \A m \in BagToSet(fd_sent) :
        m.queue = "work" => m.body.face_image = CropOf(m.body.request_id)

====
